---- MODULE Spec2Model ----
(***************************************************************************)
(* A model of psdlite's binary reader/writer (src/psd.cpp).                *)
(*                                                                         *)
(* Streams are sequences of bytes (0..255) with a 0-based cursor.  Every   *)
(* parser is an operator from (bytes, cursor) to a record holding the      *)
(* return value, the new cursor and the object built; every serializer is  *)
(* an operator from an object to the bytes it emits.  The actions apply    *)
(* them to the program state.                                              *)
(***************************************************************************)
EXTENDS Integers, Sequences, FiniteSets, TLC

VARIABLES
    f,                \* the std::istream handed to the operation: its bytes
    pos,              \* f.tellg()
    out,              \* the std::ostream handed to the operation: bytes written
    pc,               \* which operation runs next
    ret,              \* the value the last operation returned
    start,            \* f.tellg() when the last operation was entered
    nloads,           \* number of psd::load calls begun on the Document
    valid_,           \* psd::valid_
    header,           \* psd::header (raw bytes)
    image_resources,  \* psd::image_resources
    layer_info,       \* psd::layer_info
    blk,              \* an ImageResourceBlock
    lyr,              \* a Layer
    ed,               \* an ExtraData
    wname,            \* the std::wstring handed to luni_read_name
    utf8name          \* the std::string handed to luni_read_name

vars == <<f, pos, out, pc, ret, start, nloads, valid_, header,
          image_resources, layer_info, blk, lyr, ed, wname, utf8name>>

streamVars == <<f, pos, out, start>>
docVars == <<nloads, valid_, header, image_resources, layer_info>>
objVars == <<blk, lyr, ed, wname, utf8name>>

(***************************************************************************)
(* Bounds of the model.                                                    *)
(***************************************************************************)
MaxNameLen == 3       \* name lengths 0..MaxNameLen (and 255) are enumerated
MaxPayloadLen == 3    \* payload lengths 0..MaxPayloadLen
MaxUnits == 2         \* UTF-16 code units in a "luni" payload
MaxDataLen == 3       \* Extra Data payload sizes and stored lengths
MaxBlocks == 2        \* Image Resource Blocks in a section
MaxSlack == 5         \* how far a declared section length may exceed the content
MaxLoads == 3         \* psd::load calls on one Document
MaxLayers == 2        \* Layer Records present in a generated Layer Info Section

(***************************************************************************)
(* Bytes, fixed-width integers, magic constants.  Every 32-bit quantity of  *)
(* the inputs enumerated here stays far below 2^31, so uint32_t arithmetic *)
(* is plain integer arithmetic; the 16-bit layer count keeps its width.    *)
(***************************************************************************)
Byte == 0..255
U16 == 65536

Sig8BIM == <<56, 66, 73, 77>>
Sig8B64 == <<56, 66, 54, 52>>
Sig8BPS == <<56, 66, 80, 83>>
KeyLuni == <<108, 117, 110, 105>>
KeyTySh == <<84, 121, 83, 104>>
KeyOther == <<108, 115, 99, 116>>

RECURSIVE Zeros(_)
Zeros(n) == IF n <= 0 THEN <<>> ELSE <<0>> \o Zeros(n - 1)

RECURSIVE Fill(_, _)
Fill(n, b) == IF n <= 0 THEN <<>> ELSE <<b>> \o Fill(n - 1, b)

\* istream::read(dst, n) at cursor p: the n bytes after p
ReadBytes(s, p, n) == [i \in 1..n |-> IF p + i <= Len(s) THEN s[p + i] ELSE 0]

\* be<uint32_t>, be<uint16_t>, be<int16_t>: most significant byte first
BE32(b) == ((b[1] * 256 + b[2]) * 256 + b[3]) * 256 + b[4]
BE16(b) == b[1] * 256 + b[2]
BE16s(b) == IF BE16(b) >= 32768 THEN BE16(b) - U16 ELSE BE16(b)
ToBE32(n) == << (n \div 16777216) % 256, (n \div 65536) % 256,
                (n \div 256) % 256, n % 256 >>
ToBE16(n) == << (n \div 256) % 256, n % 256 >>

\* "auto r = x; Body(r)": x is evaluated once and its value handed to Body
Bind(x, Body(_)) == CHOOSE y \in {Body(r) : r \in {x}} : TRUE

\* std::vector<char>::resize / std::string::resize: truncate or zero-fill
Resize(v, n) == [i \in 1..n |-> IF i <= Len(v) THEN v[i] ELSE 0]

\* default-constructed objects
NoBlock == [signature |-> <<>>, image_resource_id |-> <<>>, name |-> <<>>, buffer |-> <<>>]
NoLayerInfo == [num_layers |-> 0, has_merged_alpha_channel |-> FALSE, layers |-> <<>>]
NoExtraData == [signature |-> <<>>, key |-> <<>>, length |-> 0, data |-> <<>>]
NoMask == [length |-> 0, rect |-> <<>>, additional_data |-> <<>>]
NoLayer == [fixed |-> <<>>, num_channels |-> 0, channel_infos |-> <<>>,
            blend |-> <<>>, extra_data_length |-> 0, mask |-> NoMask,
            blending_ranges |-> <<>>, name |-> <<>>, wname |-> <<>>,
            utf8name |-> <<>>, additional_extra_data |-> <<>>, has_text |-> FALSE]

(***************************************************************************)
(* Image Resource Block                                                    *)
(***************************************************************************)
padded_size(padding, size) == ((size + padding - 1) \div padding) * padding

ImageResourceBlock_size(b) ==
    4 + 2 + padded_size(2, 1 + Len(b.name)) + 4 + padded_size(2, Len(b.buffer))


ImageResourceBlock_read_swapped(s, p0) ==
    LET signature == ReadBytes(s, p0, 4)
        id == ReadBytes(s, p0 + 4, 2)
        length == ReadBytes(s, p0 + 6, 1)[1]
        name == ReadBytes(s, p0 + 7, length)
        p1 == p0 + 7 + length + (IF length % 2 = 1 THEN 1 ELSE 0)
        buffer_length == BE32(ReadBytes(s, p1, 4))
        buffer == ReadBytes(s, p1 + 4, buffer_length)
        p2 == p1 + 4 + buffer_length + (IF buffer_length % 2 = 1 THEN 1 ELSE 0)
        b == [signature |-> signature, image_resource_id |-> id,
              name |-> name, buffer |-> buffer]
    IN  IF signature # Sig8BIM
        THEN [ok |-> FALSE, pos |-> p0 + 4, blk |-> [NoBlock EXCEPT !.signature = signature]]
        ELSE [ok |-> (p2 - p0 = ImageResourceBlock_size(b)), pos |-> p2, blk |-> b]

ImageResourceBlock_read(s, p0) ==
    LET signature == ReadBytes(s, p0, 4)
        id == ReadBytes(s, p0 + 4, 2)
        length == ReadBytes(s, p0 + 6, 1)[1]
        name == ReadBytes(s, p0 + 7, length)
        p1 == p0 + 7 + length + (IF length % 2 = 0 THEN 1 ELSE 0)
        buffer_length == BE32(ReadBytes(s, p1, 4))
        buffer == ReadBytes(s, p1 + 4, buffer_length)
        p2 == p1 + 4 + buffer_length + (IF buffer_length % 2 = 1 THEN 1 ELSE 0)
        b == [signature |-> signature, image_resource_id |-> id,
              name |-> name, buffer |-> buffer]
    IN  IF signature # Sig8BIM
        THEN [ok |-> FALSE, pos |-> p0 + 4, blk |-> [NoBlock EXCEPT !.signature = signature]]
        ELSE [ok |-> (p2 - p0 = ImageResourceBlock_size(b)), pos |-> p2, blk |-> b]

ImageResourceBlock_write_nopad(b) ==
    LET length == Len(b.name) % 256
        bytes == Sig8BIM \o b.image_resource_id
                 \o <<length>> \o b.name
                 \o ToBE32(Len(b.buffer)) \o b.buffer
                 \o (IF Len(b.buffer) % 2 = 1 THEN <<0>> ELSE <<>>)
    IN  [ok |-> (Len(bytes) = ImageResourceBlock_size(b)), bytes |-> bytes]

ImageResourceBlock_write(b) ==
    LET length == Len(b.name) % 256
        bytes == Sig8BIM \o b.image_resource_id
                 \o <<length>> \o b.name
                 \o (IF length % 2 = 0 THEN <<0>> ELSE <<>>)
                 \o ToBE32(Len(b.buffer)) \o b.buffer
                 \o (IF Len(b.buffer) % 2 = 1 THEN <<0>> ELSE <<>>)
    IN  [ok |-> (Len(bytes) = ImageResourceBlock_size(b)), bytes |-> bytes]

(***************************************************************************)
(* Extra Data Block                                                        *)
(***************************************************************************)
ExtraData_read(s, p0) ==
    LET signature == ReadBytes(s, p0, 4)
        key == ReadBytes(s, p0 + 4, 4)
        length == BE32(ReadBytes(s, p0 + 8, 4))
        data == ReadBytes(s, p0 + 12, length)
    IN  IF signature # Sig8BIM /\ signature # Sig8B64
        THEN [ok |-> FALSE, pos |-> p0 + 4,
              ed |-> [signature |-> signature, key |-> <<>>, length |-> 0, data |-> <<>>]]
        ELSE [ok |-> TRUE, pos |-> p0 + 12 + length,
              ed |-> [signature |-> signature, key |-> key, length |-> length, data |-> data]]

\* ExtraData::size(), declared in psd.h: signature, key, length field, payload
ExtraData_size(e) == 4 + 4 + 4 + Len(e.data)

ExtraData_write(e) ==
    LET padded == IF Len(e.data) % 2 = 1 THEN e.data \o <<0>> ELSE e.data
        data == Resize(padded, e.length)
    IN  [ok |-> TRUE,
         bytes |-> e.signature \o e.key \o ToBE32(e.length) \o data,
         ed |-> [e EXCEPT !.data = data]]

\* the UTF-8 bytes luni_read_name appends for one wchar_t
Utf8Bytes_lead_mask_0x0F(wc) ==
    IF wc < 128
    THEN << wc % 256 >>
    ELSE IF wc < 2048
         THEN << (192 + ((wc \div 64) % 16)) % 256, (128 + (wc % 64)) % 256 >>
         ELSE << (224 + ((wc \div 4096) % 16)) % 256,
                 (128 + ((wc \div 64) % 64)) % 256, (128 + (wc % 64)) % 256 >>

Utf8Bytes(wc) ==
    IF wc < 128
    THEN << wc % 256 >>
    ELSE IF wc < 2048
         THEN << (192 + ((wc \div 64) % 32)) % 256, (128 + (wc % 64)) % 256 >>
         ELSE << (224 + ((wc \div 4096) % 16)) % 256,
                 (128 + ((wc \div 64) % 64)) % 256, (128 + (wc % 64)) % 256 >>

RECURSIVE Utf8OfString(_)
Utf8OfString(w) ==
    IF w = <<>> THEN <<>> ELSE Utf8Bytes(Head(w)) \o Utf8OfString(Tail(w))

luni_read_name(e, wn, u8) ==
    LET uni_length == BE32(SubSeq(e.data, 1, 4))
        w == [i \in 1..uni_length |-> BE16(<<e.data[4 + 2 * i - 1], e.data[4 + 2 * i]>>)]
    IN  [wname |-> w, utf8name |-> Utf8OfString(w)]

(***************************************************************************)
(* Layer Mask, Layer Blending Ranges                                       *)
(***************************************************************************)
RectSize == 18     \* 4*4+2: top, left, bottom, right and the 2 bytes after them
BlendSize == 16    \* 4*3+4: blend signature, key, 4 flag bytes, extra data length

LayerMask_read(s, p0) ==
    LET length == BE32(ReadBytes(s, p0, 4))
        remaining == length - RectSize
    IN  IF length # 0
        THEN [ok |-> TRUE, pos |-> p0 + 4 + RectSize + remaining,
              mask |-> [length |-> length, rect |-> ReadBytes(s, p0 + 4, RectSize),
                        additional_data |-> ReadBytes(s, p0 + 4 + RectSize, remaining)]]
        ELSE [ok |-> TRUE, pos |-> p0 + 4, mask |-> NoMask]

LayerMask_write(m) ==
    IF m.length # 0
    THEN [ok |-> TRUE,
          bytes |-> ToBE32(m.length) \o m.rect \o Resize(m.additional_data, m.length - RectSize),
          mask |-> [m EXCEPT !.additional_data = Resize(m.additional_data, m.length - RectSize)]]
    ELSE [ok |-> TRUE, bytes |-> ToBE32(m.length), mask |-> m]

\* LayerMask::size(), declared in psd.h: the length field and the bytes it counts
LayerMask_size(m) == 4 + m.length

LayerBlendingRanges_read(s, p0) ==
    LET size == BE32(ReadBytes(s, p0, 4))
    IN  [ok |-> TRUE, pos |-> p0 + 4 + size, data |-> ReadBytes(s, p0 + 4, size)]

LayerBlendingRanges_write(data) == [ok |-> TRUE, bytes |-> ToBE32(Len(data)) \o data]

\* LayerBlendingRanges::size(), declared in psd.h
LayerBlendingRanges_size(data) == 4 + Len(data)

(***************************************************************************)
(* Layer Record                                                            *)
(***************************************************************************)
\* filler bytes after the name: switch(name_size%4)
NamePadding(name_size) ==
    CASE name_size % 4 = 0 -> 3
      [] name_size % 4 = 1 -> 2
      [] name_size % 4 = 2 -> 1
      [] OTHER -> 0

\* (wchar_t)c for a char c (char is signed: bytes above 0x7F are negative)
WCharOfChar(c) == IF c < 128 THEN c ELSE c - 256

\* while(f.tellg() - extra_start_pos < extra_data_length) { ExtraData ed; ... }
RECURSIVE ReadExtraChain(_, _, _, _, _)
ReadExtraChain(s, p, extra_start_pos, extra_data_length, acc) ==
    IF p - extra_start_pos < extra_data_length
    THEN Bind(ExtraData_read(s, p), LAMBDA r :
             IF ~r.ok
             THEN [ok |-> FALSE, pos |-> r.pos, chain |-> acc]
             ELSE ReadExtraChain(s, r.pos, extra_start_pos, extra_data_length,
                                 Append(acc, r.ed)))
    ELSE [ok |-> TRUE, pos |-> p, chain |-> acc]

\* for(auto& ed:additional_extra_data): "luni" decodes the name, "TySh" marks text
RECURSIVE ScanExtraData(_, _)
ScanExtraData(chain, acc) ==
    IF chain = <<>>
    THEN acc
    ELSE LET e == Head(chain)
         IN  IF e.key = KeyLuni
             THEN LET n == luni_read_name(e, acc.wname, acc.utf8name)
                  IN  ScanExtraData(Tail(chain),
                                    [acc EXCEPT !.wname = n.wname, !.utf8name = n.utf8name])
             ELSE IF e.key = KeyTySh
                  THEN ScanExtraData(Tail(chain), [acc EXCEPT !.has_text = TRUE])
                  ELSE ScanExtraData(Tail(chain), acc)

\* Layer::read on a default-constructed Layer
Layer_read(s, p0) ==
    LET fixed == ReadBytes(s, p0, RectSize)
        num_channels == BE16(SubSeq(fixed, 17, 18))
        channel_infos ==
            [i \in 1..num_channels |->
                LET b == ReadBytes(s, p0 + RectSize + 6 * (i - 1), 6)
                IN  [id |-> BE16(SubSeq(b, 1, 2)), length |-> BE32(SubSeq(b, 3, 6))]]
        p1 == p0 + RectSize + 6 * num_channels
        blend == ReadBytes(s, p1, BlendSize)
        extra_data_length == BE32(SubSeq(blend, 13, 16))
        extra_start_pos == p1 + BlendSize
        m == LayerMask_read(s, extra_start_pos)
        br == LayerBlendingRanges_read(s, m.pos)
        name_size == ReadBytes(s, br.pos, 1)[1]
        name == ReadBytes(s, br.pos + 1, name_size)
        p2 == br.pos + 1 + name_size + NamePadding(name_size)
        chain == ReadExtraChain(s, p2, extra_start_pos, extra_data_length, <<>>)
        scanned == ScanExtraData(chain.chain,
                       [wname |-> [i \in 1..name_size |-> WCharOfChar(name[i])],
                        utf8name |-> name, has_text |-> FALSE])
    IN  IF SubSeq(blend, 1, 4) # Sig8BIM
        THEN [ok |-> FALSE, pos |-> p1 + BlendSize, lyr |-> NoLayer]
        ELSE IF ~chain.ok
             THEN [ok |-> FALSE, pos |-> chain.pos, lyr |-> NoLayer]
             ELSE [ok |-> TRUE, pos |-> chain.pos,
                   lyr |-> [fixed |-> fixed, num_channels |-> num_channels,
                            channel_infos |-> channel_infos, blend |-> blend,
                            extra_data_length |-> extra_data_length,
                            mask |-> m.mask, blending_ranges |-> br.data,
                            name |-> name, wname |-> scanned.wname,
                            utf8name |-> scanned.utf8name,
                            additional_extra_data |-> chain.chain,
                            has_text |-> scanned.has_text]]

RECURSIVE SumExtraSizes(_)
SumExtraSizes(chain) ==
    IF chain = <<>> THEN 0 ELSE ExtraData_size(Head(chain)) + SumExtraSizes(Tail(chain))

RECURSIVE WriteExtraChain(_)
WriteExtraChain(chain) ==
    IF chain = <<>>
    THEN [bytes |-> <<>>, chain |-> <<>>]
    ELSE LET w == ExtraData_write(Head(chain))
             rest == WriteExtraChain(Tail(chain))
         IN  [bytes |-> w.bytes \o rest.bytes, chain |-> <<w.ed>> \o rest.chain]

RECURSIVE WriteChannels(_)
WriteChannels(cis) ==
    IF cis = <<>> THEN <<>>
    ELSE ToBE16(Head(cis).id) \o ToBE32(Head(cis).length) \o WriteChannels(Tail(cis))

\* Layer::write; name_size is the value its uninitialized local happens to hold
Layer_write(l, name_size) ==
    LET num_channels == Len(l.channel_infos) % U16
        fixed == SubSeq(l.fixed, 1, 16) \o ToBE16(num_channels)
        extra_data_length == LayerMask_size(l.mask)
                             + LayerBlendingRanges_size(l.blending_ranges)
                             + SumExtraSizes(l.additional_extra_data)
        blend == SubSeq(l.blend, 1, 12) \o ToBE32(extra_data_length)
        m == LayerMask_write(l.mask)
        br == LayerBlendingRanges_write(l.blending_ranges)
        name == Resize(l.name, name_size)
        eds == WriteExtraChain(l.additional_extra_data)
    IN  [ok |-> TRUE,
         bytes |-> fixed \o WriteChannels(l.channel_infos) \o blend
                   \o m.bytes \o br.bytes
                   \o <<name_size>> \o name \o Zeros(NamePadding(name_size))
                   \o eds.bytes,
         lyr |-> [l EXCEPT !.fixed = fixed, !.num_channels = num_channels,
                           !.blend = blend, !.extra_data_length = extra_data_length,
                           !.mask = m.mask, !.name = name,
                           !.additional_extra_data = eds.chain]]

(***************************************************************************)
(* Layer Info Section                                                      *)
(***************************************************************************)
\* int16_t = -x: the int result converted back to 16 bits
Neg16(x) == IF -x > 32767 THEN -x - U16 ELSE -x

\* i < num_layers with i a uint32_t: the 16-bit count is converted to unsigned,
\* which makes a negative count larger than every i below 2^31
LessU32(i, n) == IF n < 0 THEN TRUE ELSE i < n

\* for(uint32_t i = 0; i < num_layers; i ++) { Layer l; ... layers.push_back }
RECURSIVE ReadLayers(_, _, _, _, _)
ReadLayers(s, p, i, num_layers, layers) ==
    IF LessU32(i, num_layers)
    THEN Bind(Layer_read(s, p), LAMBDA r :
             IF ~r.ok
             THEN [ok |-> FALSE, pos |-> r.pos, layers |-> layers]
             ELSE ReadLayers(s, r.pos, i + 1, num_layers, Append(layers, r.lyr)))
    ELSE [ok |-> TRUE, pos |-> p, layers |-> layers]

LayerInfo_read(li, s, p0) ==
    LET count == BE16s(ReadBytes(s, p0 + 4, 2))
        num_layers == IF count < 0 THEN Neg16(count) ELSE count
        hmac == IF count < 0 THEN TRUE ELSE li.has_merged_alpha_channel
    IN  Bind(ReadLayers(s, p0 + 6, 0, num_layers, li.layers), LAMBDA r :
            [ok |-> r.ok, pos |-> r.pos,
             li |-> [num_layers |-> num_layers, has_merged_alpha_channel |-> hmac,
                     layers |-> r.layers]])

(***************************************************************************)
(* Document: the four stages of psd::load                                  *)
(***************************************************************************)
HeaderSize == 26   \* sizeof(header): 4 + 2 + 6 + 2 + 4 + 4 + 2 + 2

read_header(s) ==
    LET h == ReadBytes(s, 0, HeaderSize)
    IN  [ok |-> (SubSeq(h, 1, 4) = Sig8BPS /\ BE16(SubSeq(h, 5, 6)) = 1),
         pos |-> HeaderSize, header |-> h]

read_color_mode(s, p0) ==
    [ok |-> (ReadBytes(s, p0, 4) = <<0, 0, 0, 0>>), pos |-> p0 + 4]

\* while(f.tellg() - start_pos < length) { ImageResourceBlock b; ... push_back }
RECURSIVE ReadBlocks(_, _, _, _, _)
ReadBlocks(s, p, start_pos, length, acc) ==
    IF p - start_pos < length
    THEN Bind(ImageResourceBlock_read(s, p), LAMBDA r :
             IF ~r.ok
             THEN [ok |-> FALSE, pos |-> r.pos, image_resources |-> acc]
             ELSE ReadBlocks(s, r.pos, start_pos, length, Append(acc, r.blk)))
    ELSE [ok |-> TRUE, pos |-> p, image_resources |-> acc]

read_image_resources(s, p0) ==
    LET length == BE32(ReadBytes(s, p0, 4))
    IN  ReadBlocks(s, p0 + 4, p0 + 4, length, <<>>)

read_layers_and_masks(li, s, p0) ==
    LET start_pos == p0
        length == BE32(ReadBytes(s, p0, 4))
    IN  IF length = 0
        THEN [ok |-> TRUE, pos |-> p0 + 4, li |-> li]
        ELSE Bind(LayerInfo_read(li, s, p0 + 4), LAMBDA r :
                 IF ~r.ok
                 THEN [ok |-> FALSE, pos |-> r.pos, li |-> r.li]
                 ELSE IF r.pos - start_pos < length
                      THEN [ok |-> TRUE, pos |-> start_pos + length, li |-> r.li]
                      ELSE [ok |-> TRUE, pos |-> r.pos, li |-> r.li])

(***************************************************************************)
(* A freshly constructed Document, and objects not yet read.               *)
(***************************************************************************)

FreshDocument ==
    /\ nloads = 0
    /\ valid_ = FALSE
    /\ header = <<>>
    /\ image_resources = <<>>
    /\ layer_info = NoLayerInfo

FreshObjects ==
    /\ blk = NoBlock
    /\ lyr = NoLayer
    /\ ed = NoExtraData
    /\ wname = <<>>
    /\ utf8name = <<>>

(***************************************************************************)
(* Input streams: the byte layout of the format, used to generate inputs.  *)
(***************************************************************************)
PadBytes == {0, 255}
BadSig == <<56, 66, 73, 78>>
ResourceId == <<3, 237>>
NameLens == (0..MaxNameLen) \cup {255}
NameOfLen(n) == [i \in 1..n |-> 97 + (i % 7)]
PayloadOfLen(n) == [i \in 1..n |-> (i * 37) % 256]
Prefixes == {<<>>, <<1, 2, 3>>}
TailLen == 8

\* an Image Resource Block on the wire, with the given padding byte values
MkBlock(sig, id, name, npad, payload, ppad) ==
    sig \o id \o <<Len(name)>> \o name
        \o (IF (1 + Len(name)) % 2 = 1 THEN <<npad>> ELSE <<>>)
        \o ToBE32(Len(payload)) \o payload
        \o (IF Len(payload) % 2 = 1 THEN <<ppad>> ELSE <<>>)

(***************************************************************************)
(* SpecIRB: ImageResourceBlock::read on a generated block, then            *)
(* ImageResourceBlock::write of the block read.                            *)
(***************************************************************************)
InitIRB ==
    /\ \E sig \in {Sig8BIM, BadSig}, nl \in NameLens, pl \in 0..MaxPayloadLen,
          npad \in PadBytes, ppad \in PadBytes, pre \in Prefixes :
          /\ f = pre \o MkBlock(sig, ResourceId, NameOfLen(nl), npad,
                                PayloadOfLen(pl), ppad) \o Zeros(TailLen)
          /\ pos = Len(pre)
          /\ start = Len(pre)
    /\ out = <<>>
    /\ pc = "irb_read"
    /\ ret = FALSE
    /\ FreshDocument
    /\ FreshObjects

IRBRead ==
    /\ pc = "irb_read"
    /\ \E r \in {ImageResourceBlock_read(f, pos)} :
           /\ blk' = r.blk
           /\ pos' = r.pos
           /\ ret' = r.ok
           /\ pc' = IF r.ok THEN "irb_write" ELSE "irb_failed"
    /\ start' = pos
    /\ UNCHANGED <<f, out, docVars, lyr, ed, wname, utf8name>>

IRBWrite ==
    /\ pc = "irb_write"
    /\ \E w \in {ImageResourceBlock_write(blk)} :
           /\ out' = w.bytes
           /\ ret' = w.ok
    /\ pc' = "irb_done"
    /\ UNCHANGED <<f, pos, start, docVars, objVars>>

NextIRB == IRBRead \/ IRBWrite

SpecIRB == InitIRB /\ [][NextIRB]_vars

\* the input block as it lies in the stream, and its padding bytes
InBlockBytes == SubSeq(f, start + 1, Len(f) - TailLen)
InNamePad == IF Len(blk.name) % 2 = 0 THEN f[start + 7 + Len(blk.name) + 1] ELSE 0
InPayloadPad == IF Len(blk.buffer) % 2 = 1 THEN f[Len(f) - TailLen] ELSE 0

Pad2(n) == n + (n % 2)
NameField == Pad2(1 + Len(blk.name))
PayloadField == Pad2(Len(blk.buffer))

\* C2: a block with a valid signature is read in, and written out as, exactly
\* size() = 4 + 2 + pad2(1+len(name)) + 4 + pad2(len(payload)) bytes; the name
\* field and the payload field are each even; the debug length check passes.
C2_SizeLaw ==
    /\ (pc \in {"irb_write", "irb_done"}) =>
          /\ ret = TRUE
          /\ pos - start = 4 + 2 + NameField + 4 + PayloadField
          /\ pos - start = ImageResourceBlock_size(blk)
          /\ pos = Len(f) - TailLen
          /\ NameField % 2 = 0 /\ PayloadField % 2 = 0
          /\ BE32(ReadBytes(f, start + 6 + NameField, 4)) = Len(blk.buffer)
    /\ (pc = "irb_done") =>
          /\ Len(out) = ImageResourceBlock_size(blk)
          /\ Len(out) = 4 + 2 + NameField + 4 + PayloadField
    /\ (pc = "irb_failed") => SubSeq(f, start + 1, start + 4) # Sig8BIM

C2_Witness ==
    /\ pc = "irb_done"
    /\ ret = TRUE
    /\ Len(blk.name) = 2
    /\ Len(blk.buffer) = 3

\* C3 as stated: writing the block read reproduces the input bytes, whatever
\* the padding bytes of the input were.
C3_RoundTripAnyPadding == (pc = "irb_done") => out = InBlockBytes

\* C3 amended: writing the block read reproduces the input bytes when the
\* input's padding bytes are zero.
C3_RoundTripZeroPadding ==
    (pc = "irb_done" /\ InNamePad = 0 /\ InPayloadPad = 0) => out = InBlockBytes

C3_Witness ==
    /\ pc = "irb_done"
    /\ Len(blk.name) = 2
    /\ Len(blk.buffer) = 3
    /\ InNamePad = 0 /\ InPayloadPad = 0
    /\ out = InBlockBytes

(***************************************************************************)
(* SpecLuni: ExtraData::luni_read_name on a generated "luni" payload, with *)
(* names already present in the two strings it is handed.                  *)
(***************************************************************************)
Units == {65, 127, 128, 937, 2047, 2048, 55357, 65535}

RECURSIVE UnitSeqs(_)
UnitSeqs(n) ==
    IF n = 0 THEN {<<>>}
    ELSE UnitSeqs(n - 1) \cup {Append(w, u) : w \in {x \in UnitSeqs(n - 1) : Len(x) = n - 1}, u \in Units}

RECURSIVE UnitBytes(_)
UnitBytes(w) == IF w = <<>> THEN <<>> ELSE ToBE16(Head(w)) \o UnitBytes(Tail(w))

\* a "luni" payload: 4-byte big-endian count, then the code units
MkLuniData(w) == ToBE32(Len(w)) \o UnitBytes(w)

InitLuni ==
    /\ \E w \in UnitSeqs(MaxUnits), old \in {<<>>, <<88>>, <<88, 937>>} :
          /\ ed = [signature |-> Sig8BIM, key |-> KeyLuni,
                   length |-> Len(MkLuniData(w)), data |-> MkLuniData(w)]
          /\ wname = old
          /\ utf8name = Utf8OfString(old)
    /\ f = <<>> /\ pos = 0 /\ out = <<>> /\ start = 0
    /\ pc = "luni"
    /\ ret = FALSE
    /\ FreshDocument
    /\ blk = NoBlock /\ lyr = NoLayer

LuniReadName ==
    /\ pc = "luni"
    /\ \E n \in {luni_read_name(ed, wname, utf8name)} :
           /\ wname' = n.wname
           /\ utf8name' = n.utf8name
    /\ pc' = "luni_done"
    /\ UNCHANGED <<streamVars, ret, docVars, blk, lyr, ed>>

NextLuni == LuniReadName

SpecLuni == InitLuni /\ [][NextLuni]_vars

\* the code units of the payload, as the format lays them out
PayloadUnits ==
    [i \in 1..((Len(ed.data) - 4) \div 2) |-> ed.data[3 + 2 * i] * 256 + ed.data[4 + 2 * i]]

\* the standard 1-, 2- and 3-byte UTF-8 decoding, one code point per sequence
RECURSIVE DecodeUtf8(_)
DecodeUtf8(b) ==
    IF b = <<>> THEN <<>>
    ELSE IF b[1] < 128
         THEN <<b[1]>> \o DecodeUtf8(SubSeq(b, 2, Len(b)))
         ELSE IF b[1] >= 192 /\ b[1] < 224 /\ Len(b) >= 2
              THEN <<(b[1] - 192) * 64 + (b[2] - 128)>> \o DecodeUtf8(SubSeq(b, 3, Len(b)))
              ELSE IF b[1] >= 224 /\ b[1] < 240 /\ Len(b) >= 3
                   THEN <<(b[1] - 224) * 4096 + (b[2] - 128) * 64 + (b[3] - 128)>>
                        \o DecodeUtf8(SubSeq(b, 4, Len(b)))
                   ELSE <<-1>>

Utf8Len(u) == IF u < 128 THEN 1 ELSE IF u < 2048 THEN 2 ELSE 3

RECURSIVE SumUtf8Len(_)
SumUtf8Len(w) == IF w = <<>> THEN 0 ELSE Utf8Len(Head(w)) + SumUtf8Len(Tail(w))

\* C7: luni_read_name replaces the UTF-16 name by the payload's code units in
\* order, and the UTF-8 name by their unit-by-unit 1/2/3-byte encoding
\* (U+03A9 gives CE A9, U+0041 gives 41; surrogates are encoded on their own).
C7_LuniTranscoding ==
    (pc = "luni_done") =>
        /\ wname = PayloadUnits
        /\ Len(utf8name) = SumUtf8Len(PayloadUnits)
        /\ DecodeUtf8(utf8name) = PayloadUnits
        /\ \A i \in 1..Len(utf8name) : utf8name[i] \in Byte
        /\ (PayloadUnits = <<937>>) => utf8name = <<206, 169>>
        /\ (PayloadUnits = <<65>>) => utf8name = <<65>>
        /\ (PayloadUnits = <<55357>>) => utf8name = <<237, 160, 189>>

C7_Witness ==
    /\ pc = "luni_done"
    /\ PayloadUnits = <<937, 65>>
    /\ utf8name = <<206, 169, 65>>
    /\ wname = <<937, 65>>

(***************************************************************************)
(* SpecED: ExtraData::write on a block whose in-memory payload size and    *)
(* stored length field are chosen independently.                           *)
(***************************************************************************)
InitED ==
    /\ \E sig \in {Sig8BIM, Sig8B64}, key \in {KeyLuni, KeyTySh, KeyOther},
          dl \in 0..MaxDataLen, length \in 0..MaxDataLen :
          ed = [signature |-> sig, key |-> key, length |-> length,
                data |-> PayloadOfLen(dl)]
    /\ f = <<>> /\ pos = 0 /\ out = <<>> /\ start = 0
    /\ pc = "ed_write"
    /\ ret = FALSE
    /\ FreshDocument
    /\ blk = NoBlock /\ lyr = NoLayer /\ wname = <<>> /\ utf8name = <<>>

EDWrite ==
    /\ pc = "ed_write"
    /\ \E w \in {ExtraData_write(ed)} :
           /\ out' = w.bytes
           /\ ed' = w.ed
           /\ ret' = w.ok
    /\ pc' = "ed_done"
    /\ UNCHANGED <<f, pos, start, docVars, blk, lyr, wname, utf8name>>

NextED == EDWrite

SpecED == InitED /\ [][NextED]_vars

\* C9: ExtraData::write emits signature, tag and length, then a payload of
\* exactly that many bytes, and that payload has an even byte count;
\* afterwards the in-memory payload size equals the declared length.
C9_WritePadsPayload ==
    (pc = "ed_done") =>
        /\ SubSeq(out, 1, 4) = ed.signature
        /\ SubSeq(out, 5, 8) = ed.key
        /\ Len(out) - 12 = BE32(SubSeq(out, 9, 12))
        /\ (Len(out) - 12) % 2 = 0
        /\ Len(ed.data) = ed.length

\* what does hold of ExtraData::write: the payload emitted has the stored length
C9_PayloadMatchesLength ==
    (pc = "ed_done") =>
        /\ Len(out) - 12 = BE32(SubSeq(out, 9, 12))
        /\ Len(ed.data) = ed.length

(***************************************************************************)
(* Layer Records on the wire, used to generate inputs.                     *)
(***************************************************************************)
MkExtra(sig, key, data) == sig \o key \o ToBE32(Len(data)) \o data

RECURSIVE ConcatAll(_)
ConcatAll(ss) == IF ss = <<>> THEN <<>> ELSE Head(ss) \o ConcatAll(Tail(ss))

MaskBytes(hasMask) ==
    IF hasMask THEN ToBE32(20) \o Fill(18, 1) \o <<7, 9>> ELSE ToBE32(0)

\* the name field: length byte, name, zero filler up to a multiple of 4
NameFieldBytes(n) == <<n>> \o NameOfLen(n) \o Zeros((4 - ((1 + n) % 4)) % 4)

\* a Layer Record: rectangle, channel count, channels, blend block with the
\* extra data length (mask + blending ranges + name field + extra data), ...
MkLayer(blendSig, nch, hasMask, brLen, nameLen, extras) ==
    LET extra == MaskBytes(hasMask) \o ToBE32(brLen) \o PayloadOfLen(brLen)
                 \o NameFieldBytes(nameLen) \o ConcatAll(extras)
    IN  ToBE32(0) \o ToBE32(0) \o ToBE32(1) \o ToBE32(1) \o ToBE16(nch)
        \o ConcatAll([i \in 1..nch |-> ToBE16(i - 1) \o ToBE32(2)])
        \o blendSig \o <<110, 111, 114, 109>> \o <<255, 0, 0, 0>>
        \o ToBE32(Len(extra)) \o extra

ExtraShapes == { MkExtra(Sig8BIM, KeyOther, <<>>),
                 MkExtra(Sig8B64, KeyTySh, <<5, 6>>),
                 MkExtra(Sig8BIM, KeyLuni, MkLuniData(<<937, 65>>)) }

ExtraChains == {<<>>} \cup {<<a>> : a \in ExtraShapes}
                      \cup {<<a, b>> : a \in ExtraShapes, b \in ExtraShapes}

(***************************************************************************)
(* SpecLayer: Layer::read on a generated record, Layer::write of the layer *)
(* read, then Layer::read of the bytes written.                            *)
(***************************************************************************)
InitLayer ==
    /\ \E nch \in 0..1, hasMask \in BOOLEAN, nl \in 0..MaxNameLen, x \in ExtraChains :
          f = MkLayer(Sig8BIM, nch, hasMask, 0, nl, x) \o Zeros(TailLen)
    /\ pos = 0 /\ out = <<>> /\ start = 0
    /\ pc = "lyr_read"
    /\ ret = FALSE
    /\ FreshDocument
    /\ FreshObjects

LayerRead ==
    /\ pc = "lyr_read"
    /\ \E r \in {Layer_read(f, pos)} :
           /\ lyr' = r.lyr
           /\ pos' = r.pos
           /\ ret' = r.ok
           /\ pc' = IF r.ok THEN "lyr_write" ELSE "lyr_failed"
    /\ start' = pos
    /\ UNCHANGED <<f, out, docVars, blk, ed, wname, utf8name>>

\* name_size is read before it is ever written: any byte value
LayerWrite ==
    /\ pc = "lyr_write"
    /\ \E name_size \in Byte :
          \E w \in {Layer_write(lyr, name_size)} :
              /\ out' = w.bytes
              /\ lyr' = w.lyr
              /\ ret' = w.ok
    /\ pc' = "lyr_readback"
    /\ UNCHANGED <<f, pos, start, docVars, blk, ed, wname, utf8name>>

\* Layer::read on a stream holding the bytes written; blk keeps the result
LayerReadBack ==
    /\ pc = "lyr_readback"
    /\ \E r \in {Layer_read(out, 0)} :
           /\ blk' = r.lyr
           /\ pos' = r.pos
           /\ ret' = r.ok
    /\ pc' = "lyr_done"
    /\ UNCHANGED <<f, out, start, docVars, lyr, ed, wname, utf8name>>

NextLayer == LayerRead \/ LayerWrite \/ LayerReadBack

SpecLayer == InitLayer /\ [][NextLayer]_vars

\* the layer as first read from the input, and where the written bytes' mask
\* section starts
OriginalLayer == Layer_read(f, start).lyr
WrittenExtraStart == RectSize + 6 * Len(lyr.channel_infos) + BlendSize
WrittenExtraLength == BE32(SubSeq(out, WrittenExtraStart - 3, WrittenExtraStart))
WrittenNameSize == out[WrittenExtraStart + LayerMask_size(lyr.mask)
                       + LayerBlendingRanges_size(lyr.blending_ranges) + 1]

\* C8: the extra-data length Layer::write emits equals the bytes it emits from
\* the mask section to the end of the last Extra Data Block, the name length
\* byte is the name's length, and reading the written bytes back consumes them
\* all and recovers the same name and Extra Data chain.
C8_WriteMirrorsRead ==
    /\ (pc \in {"lyr_readback", "lyr_done"}) =>
          /\ WrittenExtraLength = Len(out) - WrittenExtraStart
          /\ WrittenNameSize = Len(OriginalLayer.name)
    /\ (pc = "lyr_done") =>
          /\ ret = TRUE
          /\ pos = Len(out)
          /\ blk.name = OriginalLayer.name
          /\ blk.additional_extra_data = OriginalLayer.additional_extra_data

\* C8, the part about the emitted length alone
C8_LengthCoversNameField ==
    (pc \in {"lyr_readback", "lyr_done"}) =>
        WrittenExtraLength = Len(out) - WrittenExtraStart

\* C8, the part about the name alone
C8_NameRecovered ==
    (pc = "lyr_done") => blk.name = OriginalLayer.name

\* reading a generated record consumes exactly the record
LayerReadConsumesRecord ==
    (pc = "lyr_write") => ret = TRUE /\ pos = Len(f) - TailLen

(***************************************************************************)
(* SpecLI: LayerInfo::read on a fresh LayerInfo.  The stream holds the     *)
(* section's length field, a 16-bit layer count c and k Layer Records;     *)
(* k = |c| for the small counts, and the extreme counts come with k = 0.   *)
(***************************************************************************)
LayerShapes == { MkLayer(Sig8BIM, nch, FALSE, 0, nl, x) :
                    nch \in 0..1, nl \in {0, 2},
                    x \in {<<>>, <<MkExtra(Sig8BIM, KeyLuni, MkLuniData(<<937>>))>>} }

RECURSIVE LayerSeqs(_)
LayerSeqs(n) ==
    IF n = 0 THEN {<<>>}
    ELSE {r \o l : r \in LayerSeqs(n - 1), l \in LayerShapes}

Abs(x) == IF x < 0 THEN -x ELSE x

\* the layer count field of an int16 value
CountBytes(c) == ToBE16(IF c < 0 THEN c + U16 ELSE c)

MkLayerInfo(c, records) == ToBE32(2 + Len(records)) \o CountBytes(c) \o records

LayerInfoInputs ==
    { MkLayerInfo(c, r) : c \in {-32768, -32767, 32767}, r \in {<<>>} }
    \cup UNION { { MkLayerInfo(k, r) : r \in LayerSeqs(k) } : k \in 0..MaxLayers }
    \cup UNION { { MkLayerInfo(-k, r) : r \in LayerSeqs(k) } : k \in 1..MaxLayers }

LITail == 40

InitLI ==
    /\ \E li \in LayerInfoInputs, pre \in Prefixes :
          /\ f = pre \o li \o Zeros(LITail)
          /\ pos = Len(pre)
          /\ start = Len(pre)
    /\ out = <<>>
    /\ pc = "li_read"
    /\ ret = FALSE
    /\ FreshDocument
    /\ FreshObjects

LayerInfoRead ==
    /\ pc = "li_read"
    /\ \E r \in {LayerInfo_read(layer_info, f, pos)} :
           /\ layer_info' = r.li
           /\ pos' = r.pos
           /\ ret' = r.ok
    /\ start' = pos
    /\ pc' = "li_done"
    /\ UNCHANGED <<f, out, nloads, valid_, header, image_resources, objVars>>

NextLI == LayerInfoRead

SpecLI == InitLI /\ [][NextLI]_vars

\* the layer count field of the section being read, as a signed 16-bit value
CountField == BE16s(ReadBytes(f, start + 4, 2))
\* the stream holds |c| well-formed records after the count
EnoughRecords == BE32(ReadBytes(f, start, 4)) > 2 \/ CountField = 0

\* C6: for every 16-bit layer count c, num_layers = |c|, the merged-alpha flag
\* is set when c < 0, and |c| records are parsed when the stream holds them.
C6_CountSignDecoding ==
    (pc = "li_done") =>
        /\ layer_info.num_layers = Abs(CountField)
        /\ (CountField < 0) => layer_info.has_merged_alpha_channel
        /\ EnoughRecords => (ret = TRUE /\ Len(layer_info.layers) = Abs(CountField))

\* what does hold: the same, for every count except -32768
C6_CountSignDecodingAboveMin ==
    (pc = "li_done" /\ CountField # -32768) =>
        /\ layer_info.num_layers = Abs(CountField)
        /\ (CountField < 0) => layer_info.has_merged_alpha_channel
        /\ EnoughRecords => (ret = TRUE /\ Len(layer_info.layers) = Abs(CountField))

(***************************************************************************)
(* The four stages of psd::load as actions.  Spec runs them in order on    *)
(* one Document; SpecRes and SpecLM enter a single stage on a generated    *)
(* section.                                                                *)
(***************************************************************************)
LoadFails ==
    /\ ret' = FALSE
    /\ pc' = "idle"

ReadHeader ==
    /\ pc = "header"
    /\ \E r \in {read_header(f)} :
           /\ header' = r.header
           /\ pos' = r.pos
           /\ IF r.ok THEN pc' = "color" /\ ret' = ret ELSE LoadFails
    /\ start' = 0
    /\ UNCHANGED <<f, out, nloads, valid_, image_resources, layer_info, objVars>>

ReadColorMode ==
    /\ pc = "color"
    /\ \E r \in {read_color_mode(f, pos)} :
           /\ pos' = r.pos
           /\ IF r.ok THEN pc' = "resources" /\ ret' = ret ELSE LoadFails
    /\ start' = pos
    /\ UNCHANGED <<f, out, docVars, objVars>>

ReadImageResources ==
    /\ pc = "resources"
    /\ \E r \in {read_image_resources(f, pos)} :
           /\ image_resources' = r.image_resources
           /\ pos' = r.pos
           /\ IF r.ok THEN pc' = "layers" /\ ret' = ret ELSE LoadFails
    /\ start' = pos
    /\ UNCHANGED <<f, out, nloads, valid_, header, layer_info, objVars>>

ReadLayersAndMasks ==
    /\ pc = "layers"
    /\ \E r \in {read_layers_and_masks(layer_info, f, pos)} :
           /\ layer_info' = r.li
           /\ pos' = r.pos
           /\ IF r.ok THEN pc' = "loaded" /\ ret' = ret ELSE LoadFails
    /\ start' = pos
    /\ UNCHANGED <<f, out, nloads, valid_, header, image_resources, objVars>>

\* valid_ = true; return true;
LoadSucceeds ==
    /\ pc = "loaded"
    /\ valid_' = TRUE
    /\ ret' = TRUE
    /\ pc' = "idle"
    /\ UNCHANGED <<streamVars, nloads, header, image_resources, layer_info, objVars>>

(***************************************************************************)
(* SpecRes: psd::read_image_resources on a section with declared length L  *)
(* followed by well-formed blocks.                                         *)
(***************************************************************************)
BlockShapes == { MkBlock(Sig8BIM, ResourceId, NameOfLen(nl), 0, PayloadOfLen(pl), 0) :
                    nl \in 0..1, pl \in 0..2 }

RECURSIVE BlockSeqs(_)
BlockSeqs(n) ==
    IF n = 0 THEN {<<>>}
    ELSE BlockSeqs(n - 1)
         \cup {r \o b : r \in {x \in BlockSeqs(n - 1) : x # <<>> \/ n = 1}, b \in BlockShapes}

InitRes ==
    /\ \E blocks \in BlockSeqs(MaxBlocks), pre \in Prefixes :
          \E L \in 0..(Len(blocks) + MaxSlack) :
              /\ f = pre \o ToBE32(L) \o blocks \o Zeros(TailLen)
              /\ pos = Len(pre)
              /\ start = Len(pre)
    /\ out = <<>>
    /\ pc = "resources"
    /\ ret = FALSE
    /\ FreshDocument
    /\ FreshObjects

NextRes == ReadImageResources

SpecRes == InitRes /\ [][NextRes]_vars

RECURSIVE SumBlockSizes(_)
SumBlockSizes(bs) ==
    IF bs = <<>> THEN 0 ELSE ImageResourceBlock_size(Head(bs)) + SumBlockSizes(Tail(bs))

\* the length field of the section the last stage read
DeclaredLength == BE32(ReadBytes(f, start, 4))

\* C5: when read_image_resources succeeds, the cursor has advanced exactly
\* 4 + L bytes and the blocks parsed have sizes summing to L, for every L.
C5_ConsumesDeclaredLength ==
    (pc = "layers") =>
        /\ pos - start = 4 + DeclaredLength
        /\ SumBlockSizes(image_resources) = DeclaredLength

\* what does hold: the cursor advances by 4 plus the sizes of the blocks
\* parsed, which reach L, and fall short of L without the last block
C5_StopsAtFirstBoundaryReachingL ==
    (pc = "layers") =>
        /\ pos - start = 4 + SumBlockSizes(image_resources)
        /\ SumBlockSizes(image_resources) >= DeclaredLength
        /\ image_resources # <<>> =>
              SumBlockSizes(SubSeq(image_resources, 1, Len(image_resources) - 1))
                  < DeclaredLength

(***************************************************************************)
(* SpecLM: psd::read_layers_and_masks on a section with declared length L  *)
(* holding a Layer Info Section and trailing bytes.                        *)
(***************************************************************************)
LMInputs == UNION { { MkLayerInfo(k, r) : r \in LayerSeqs(k) } : k \in 0..(MaxLayers - 1) }
            \cup { MkLayerInfo(-1, r) : r \in LayerSeqs(1) }

InitLM ==
    /\ \E li \in LMInputs, pre \in Prefixes :
          \E L \in {0} \cup ((Len(li) - 2)..(Len(li) + MaxSlack)) :
              /\ f = pre \o ToBE32(L) \o li \o Fill(MaxSlack + TailLen, 170)
              /\ pos = Len(pre)
              /\ start = Len(pre)
    /\ out = <<>>
    /\ pc = "layers"
    /\ ret = FALSE
    /\ FreshDocument
    /\ FreshObjects

NextLM == ReadLayersAndMasks

SpecLM == InitLM /\ [][NextLM]_vars

\* bytes of the section the Layer Info Section occupies
LayerInfoBytes == LayerInfo_read(NoLayerInfo, f, start + 4).pos - (start + 4)

\* C4: when read_layers_and_masks succeeds with L # 0 and the Layer Info
\* Section took fewer than L bytes, the cursor ends 4 + L bytes after the
\* start of the length field.
C4_SkipsToDeclaredEnd ==
    (pc = "loaded" /\ DeclaredLength # 0 /\ LayerInfoBytes < DeclaredLength) =>
        pos = start + 4 + DeclaredLength

\* what does hold: the cursor ends L bytes after the start of the length
\* field when length field and Layer Info Section together took fewer than L
C4_SkipsToLengthFromFieldStart ==
    (pc = "loaded" /\ DeclaredLength # 0) =>
        pos = IF 4 + LayerInfoBytes < DeclaredLength
              THEN start + DeclaredLength
              ELSE start + 4 + LayerInfoBytes

(***************************************************************************)
(* Spec: psd::load called repeatedly on one Document, each time on one of  *)
(* a family of documents: well-formed ones, and ones failing at each of    *)
(* the four stages.                                                        *)
(***************************************************************************)
MkHeader(magic, version) ==
    magic \o ToBE16(version) \o Zeros(6) \o ToBE16(3) \o ToBE32(1) \o ToBE32(1)
          \o ToBE16(8) \o ToBE16(3)

MkDoc(magic, version, colorCount, blocks, layerInfo) ==
    MkHeader(magic, version) \o ToBE32(colorCount)
        \o ToBE32(Len(blocks)) \o blocks
        \o ToBE32(Len(layerInfo)) \o layerInfo \o Zeros(TailLen)

OneBlock == MkBlock(Sig8BIM, ResourceId, NameOfLen(1), 0, PayloadOfLen(1), 0)
BadBlock == MkBlock(BadSig, ResourceId, NameOfLen(1), 0, PayloadOfLen(1), 0)
PlainLayer == MkLayer(Sig8BIM, 1, FALSE, 0, 2, <<>>)
LuniLayer == MkLayer(Sig8BIM, 0, TRUE, 0, 1,
                     <<MkExtra(Sig8BIM, KeyLuni, MkLuniData(<<937>>))>>)
BadLayer == MkLayer(BadSig, 0, FALSE, 0, 0, <<>>)

GoodDocs == { MkDoc(Sig8BPS, 1, 0, b, li) :
                 b \in {<<>>, OneBlock},
                 li \in {<<>>, MkLayerInfo(1, PlainLayer), MkLayerInfo(-1, LuniLayer)} }

BadDocs == { MkDoc(BadSig, 1, 0, <<>>, <<>>),
             MkDoc(Sig8BPS, 2, 0, <<>>, <<>>),
             MkDoc(Sig8BPS, 1, 1, <<>>, <<>>),
             MkDoc(Sig8BPS, 1, 0, BadBlock, <<>>),
             MkDoc(Sig8BPS, 1, 0, OneBlock, MkLayerInfo(1, BadLayer)) }

Docs == GoodDocs \cup BadDocs

Init ==
    /\ f = <<>> /\ pos = 0 /\ out = <<>> /\ start = 0
    /\ pc = "idle"
    /\ ret = FALSE
    /\ FreshDocument
    /\ FreshObjects

\* psd::load(stream) is entered
Load(d) ==
    /\ pc = "idle"
    /\ nloads < MaxLoads
    /\ f' = d
    /\ pos' = 0
    /\ start' = 0
    /\ nloads' = nloads + 1
    /\ pc' = "header"
    /\ UNCHANGED <<out, ret, valid_, header, image_resources, layer_info, objVars>>

Next ==
    \/ \E d \in Docs : Load(d)
    \/ ReadHeader
    \/ ReadColorMode
    \/ ReadImageResources
    \/ ReadLayersAndMasks
    \/ LoadSucceeds

Spec == Init /\ [][Next]_vars

\* C1: after any sequence of loads, the Document converts to true if and only
\* if the most recent load succeeded in all four stages.
C1_ValidIffLastLoadSucceeded ==
    (pc = "idle" /\ nloads > 0) => (valid_ = ret)

\* what does hold: the Document converts to true after a load that succeeded,
\* and a Document that converts to true keeps doing so
C1_ValidAfterSuccess == (pc = "idle" /\ ret = TRUE) => valid_ = TRUE

C1_ValidIsSticky == [][valid_ = TRUE => valid_' = TRUE]_vars

\* the Layer Records of the stream of the latest load
LatestLayers ==
    IF DeclaredLength = 0 THEN <<>>
    ELSE LayerInfo_read(NoLayerInfo, f, start + 4).li.layers

\* C10: whenever the latest load succeeded, the layer list holds exactly
\* num_layers records, the ones parsed by that load.
C10_LayersOfLatestLoad ==
    (pc = "idle" /\ nloads > 0 /\ ret = TRUE) =>
        /\ Len(layer_info.layers) = layer_info.num_layers
        /\ layer_info.layers = LatestLayers

\* what does hold: image_resources holds only the blocks of the latest load
ResourcesOfLatestLoad ==
    (pc = "layers") => image_resources = read_image_resources(f, start).image_resources

====
